---- MODULE Spec2Model ----
(***************************************************************************)
(* State-machine model of mogp_emulator.GaussianProcessGPU: the Python     *)
(* wrapper (facade) around the native libgpgpu.DenseGP_GPU backend.        *)
(*                                                                         *)
(* The wrapper is modelled from GaussianProcessGPU.py.  The native         *)
(* backend is not part of the Python source; its operations are modelled   *)
(* from the design document (sections 4.2-4.4) and carry the names of the  *)
(* libgpgpu methods the wrapper calls.                                     *)
(*                                                                         *)
(* Real numbers: a hyperparameter is a pair <<base, eps>> standing for     *)
(* base + eps * 1e-16 with |base| <= 1000 and |eps| < 10^9, so that the    *)
(* tolerance test of numpy.allclose is decided exactly in integers.        *)
(***************************************************************************)
EXTENDS Integers, Sequences, FiniteSets, TLC

VARIABLES
    exists,         \* a GaussianProcessGPU object came out of __init__
    kernel,         \* self.kernel
    _nugget,        \* self._nugget
    _nugget_type,   \* self._nugget_type (libgpgpu.nugget_type value 0,1,2)
    _densegp_gpu,   \* self._densegp_gpu: the native object's state
    ret             \* outcome of the most recent call

vars == <<exists, kernel, _nugget, _nugget_type, _densegp_gpu, ret>>

---------------------------------------------------------------------------
(* Bounds of the model *)

MaxD == 1          \* input dimensions D range over 1..MaxD
MaxN == 2          \* training-set sizes n range over 1..MaxN
MaxM == 2          \* test batches have 1..MaxM rows
MaxRetries == 1    \* adaptive jitter escalations tried by the backend

---------------------------------------------------------------------------
(* Python values *)

None == [type |-> "NoneType", val |-> 0]
PyStr(s) == [type |-> "str", val |-> s]
PyNum(v) == [type |-> "float", val |-> v]
PyObj(cls) == [type |-> cls, val |-> 1]

\* Python truth value of an object: None, 0 and "" are false, instances of
\* classes without __bool__/__len__ are true.
Truthy(o) ==
    CASE o.type = "NoneType" -> FALSE
      [] o.type = "str"      -> o.val # ""
      [] o.type = "float"    -> o.val # 0
      [] o.type = "list"     -> o.val # 0
      [] OTHER               -> TRUE

Abs(i) == IF i < 0 THEN -i ELSE i

---------------------------------------------------------------------------
(* numpy.allclose(a, b, rtol=1e-10, atol=1e-15) *)

ATol == 10            \* 1e-15 in units of 1e-16
RTolPerUnit == 1000000 \* 1e-10 * 1.0 in units of 1e-16

\* |x - y| <= atol + rtol * |y| for x = <<bx, ex>>, y = <<by, ey>>.
\* Different bases differ by at least 1 - 2e-7, far above any tolerance here.
\* Equal bases: |ex - ey| <= ATol + RTolPerUnit*|by| + f, where
\* f = (+/-)ey * 1e-10 is a fraction in (-0.1, 0.1) with the sign of y's eps
\* relative to y's base.
IsClose(x, y) ==
    IF x[1] # y[1] THEN FALSE
    ELSE LET diff == Abs(x[2] - y[2])
             N    == ATol + RTolPerUnit * Abs(y[1])
             f    == IF y[1] > 0 THEN y[2] ELSE IF y[1] < 0 THEN -y[2] ELSE Abs(y[2])
         IN  IF f >= 0 THEN diff <= N ELSE diff <= N - 1

\* numpy broadcasting of two 1-D shapes
Broadcastable(a, b) == Len(a) = Len(b) \/ Len(a) = 1 \/ Len(b) = 1

\* allclose on broadcastable 1-D arrays
AllClose(a, b) ==
    LET n == IF Len(a) > Len(b) THEN Len(a) ELSE Len(b)
        A(i) == IF Len(a) = 1 THEN a[1] ELSE a[i]
        B(i) == IF Len(b) = 1 THEN b[1] ELSE b[i]
    IN  \A i \in 1..n : IsClose(A(i), B(i))

---------------------------------------------------------------------------
(* Input domains *)

ThetaElems == {<<0, 0>>, <<0, 10>>, <<0, 11>>, <<1, 0>>, <<1, 1000010>>, <<1, 1000011>>}

\* theta vectors of length n: any first element, zeros after it
Thetas(n) == {[i \in 1..n |-> IF i = 1 THEN e ELSE <<0, 0>>] : e \in ThetaElems}

\* theta arguments offered to an emulator with n hyperparameters: the right
\* length, length 1 (which numpy broadcasts) and one element too many
ThetaArgs(n) == Thetas(n) \cup {<< <<0, 0>> >>, << <<1, 0>> >>}
                          \cup {[i \in 1..(n + 1) |-> <<0, 0>>]}

MeanArgs == {None, PyObj("MeanBase"), PyStr("x[0]"), PyStr(""), PyNum(0)}

KernelArgs == {None, PyStr("SquaredExponential"), PyStr("Matern52"),
               PyObj("SquaredExponential"), PyObj("Matern52"), PyNum(0)}

NuggetArgs == {PyStr("adaptive"), PyStr("fit"), PyStr("fixed"),
               PyNum(-1), PyNum(0), PyNum(1),
               [type |-> "int", val |-> 1], [type |-> "int", val |-> -1],
               None}

\* shapes of the inputs and targets arrays
InputShapes == [ndim : 1..3, n : 1..MaxN, d : 1..MaxD]
TargetShapes == [ndim : 1..2, n : 1..MaxN]

Coord == {0, 1}
\* test points: the same coordinate in every dimension; one point only in
\* the dimension no emulator of the model has
Rows(d) == {[i \in 1..d |-> c] : c \in (IF d <= MaxD THEN Coord ELSE {0})}
\* testing arrays: ndim 1 is a flat vector, ndim 2 a list of rows;
\* ndim 0 (a scalar) and ndim 3 carry no data the wrapper gets to use
\* a batch of m points of dimension d: the coordinates alternate from c on
Batch(m, d, c) == [i \in 1..m |-> [j \in 1..d |-> (c + i + 1) % 2]]
TestArgs ==
    {[ndim |-> 1, data |-> v] : v \in UNION {Rows(d) : d \in 1..(MaxD + 1)}}
    \cup {[ndim |-> 2, data |-> Batch(m, d, c)] : m \in 1..MaxM, d \in 1..MaxD, c \in Coord}
    \cup {[ndim |-> 2, data |-> Batch(1, MaxD + 1, 0)]}
    \cup {[ndim |-> 0, data |-> <<>>], [ndim |-> 3, data |-> <<>>]}

---------------------------------------------------------------------------
(* libgpgpu.DenseGP_GPU: the native backend *)

\* the regularisation term delta of K' = K + delta*I; kind "const" carries a
\* number, kind "exp" the hyperparameter it is the exponential of
Const(v) == [k |-> "const", v |-> <<v, 0>>]
ExpOf(e) == [k |-> "exp", v |-> e]

\* factorization state: Cholesky factor, alpha, logdet, posterior value and
\* gradient are all functions of (theta, delta), so the cache entry is the
\* pair it was computed for; src "uninit" is the state before any fit
Uninit == [src |-> "uninit", theta |-> <<>>, delta |-> Const(0)]
Fact(theta, delta) == [src |-> "fit", theta |-> theta, delta |-> delta]

NoBackend == [created |-> FALSE, D |-> 0, status |-> "unfit",
              theta_d |-> <<>>, nug_d |-> 0, fact |-> Uninit]

\* contents of the backend's theta buffer before the first fit
GarbageTheta(n) == {[i \in 1..n |-> <<0, 0>>], [i \in 1..n |-> <<1, 1000011>>]}
\* nugget the backend works with when it is handed none
BackendNuggets == {0, 1}
\* jitter found by the adaptive policy: floor doubled once per retry
AdaptiveDeltas == 0..MaxRetries

\* n_params(): D log-length-scales, one log-variance, one more under "fit"
n_params_of(D, ntype) == D + 1 + (IF ntype = 1 THEN 1 ELSE 0)

\* DenseGP_GPU(inputs, targets)
DenseGP_GPU(D, garbage, nug) ==
    [created |-> TRUE, D |-> D, status |-> "unfit",
     theta_d |-> garbage, nug_d |-> nug, fact |-> Uninit]

\* outcome of a Cholesky factorization that found no positive-definite matrix
CholFail == -1

\* update_theta(theta, nugget_type); chol is the outcome of the Cholesky
\* factorization: CholFail or the index of the adaptive retry that succeeded
update_theta(gpu, theta, ntype, chol) ==
    IF Len(theta) # n_params_of(gpu.D, ntype)
    THEN [ok |-> FALSE, gpu |-> gpu]
    ELSE IF chol = CholFail
    THEN [ok |-> FALSE, gpu |-> [gpu EXCEPT !.status = "failed"]]
    ELSE LET delta == CASE ntype = 0 -> Const(chol)
                        [] ntype = 1 -> ExpOf(theta[Len(theta)])
                        [] OTHER     -> Const(gpu.nug_d)
         IN  [ok |-> TRUE,
              gpu |-> [gpu EXCEPT !.status = "fit", !.theta_d = theta,
                                  !.fact = Fact(theta, delta)]]

\* outcomes the factorization can have under a nugget type
CholOutcomes(ntype) == IF ntype = 0 THEN AdaptiveDeltas \cup {CholFail} ELSE {0, CholFail}

\* get_theta(theta): copies the backend's theta buffer into the array
get_theta(gpu) == gpu.theta_d

\* get_logpost()
get_logpost(gpu) == [q |-> "logpost", fact |-> gpu.fact]

\* dloglik_dtheta(result)
dloglik_dtheta(gpu) == [q |-> "grad", fact |-> gpu.fact]

\* one predicted quantity at one test point
Zero == [q |-> "zero", fact |-> Uninit, x |-> <<>>]
MeanAt(fact, x) == [q |-> "mean", fact |-> fact, x |-> x]
VarAt(fact, x) == [q |-> "var", fact |-> fact, x |-> x]

\* predict_batch(testing, means): fills means
predict_batch(gpu, rows) == [i \in 1..Len(rows) |-> MeanAt(gpu.fact, rows[i])]

\* predict_variance_batch(testing, means, variances): the variances it fills
predict_variance_batch(gpu, rows) == [i \in 1..Len(rows) |-> VarAt(gpu.fact, rows[i])]

\* the backend refuses test points of the wrong dimensionality
DimOk(gpu, rows) == \A i \in 1..Len(rows) : Len(rows[i]) = gpu.D

\* a backend that has never been fitted may refuse a read (refuses = TRUE)
\* or answer from its uninitialised buffers
Refused(gpu, refuses) == gpu.fact.src = "uninit" /\ refuses
RefuseChoices(gpu) == IF gpu.fact.src = "uninit" THEN BOOLEAN ELSE {FALSE}

---------------------------------------------------------------------------
(* GaussianProcessGPU: the wrapper's methods.  Each returns the outcome of  *)
(* the call: kind "value" (val is returned), "none" (None is returned) or  *)
(* "error" (err is raised), the backend state it leaves, and whether it    *)
(* went through fit.                                                       *)

Raise(e, gpu, refit) == [kind |-> "error", err |-> e, val |-> <<>>, gpu |-> gpu, refit |-> refit]
Return(v, gpu, refit) == [kind |-> "value", err |-> "", val |-> v, gpu |-> gpu, refit |-> refit]
ReturnNone(gpu) == [kind |-> "none", err |-> "", val |-> <<>>, gpu |-> gpu, refit |-> FALSE]

\* nugget.setter without the sign test
nugget_setter_nosign(nugget) ==
    IF nugget.type \notin {"str", "float", "int"}
    THEN [ok |-> FALSE, err |-> "TypeError", ntype |-> 0, nug |-> None]
    ELSE IF nugget.type = "str"
    THEN IF nugget.val = "adaptive"
         THEN [ok |-> TRUE, err |-> "", ntype |-> 0, nug |-> None]
         ELSE IF nugget.val = "fit"
         THEN [ok |-> TRUE, err |-> "", ntype |-> 1, nug |-> None]
         ELSE [ok |-> FALSE, err |-> "ValueError", ntype |-> 0, nug |-> None]
    ELSE [ok |-> TRUE, err |-> "", ntype |-> 2, nug |-> PyNum(nugget.val)]

\* nugget.setter
nugget_setter(nugget) ==
    IF nugget.type \notin {"str", "float", "int"}
    THEN [ok |-> FALSE, err |-> "TypeError", ntype |-> 0, nug |-> None]
    ELSE IF nugget.type = "str"
    THEN IF nugget.val = "adaptive"
         THEN [ok |-> TRUE, err |-> "", ntype |-> 0, nug |-> None]
         ELSE IF nugget.val = "fit"
         THEN [ok |-> TRUE, err |-> "", ntype |-> 1, nug |-> None]
         ELSE [ok |-> FALSE, err |-> "ValueError", ntype |-> 0, nug |-> None]
    ELSE IF nugget.val < 0
         THEN [ok |-> FALSE, err |-> "ValueError", ntype |-> 0, nug |-> None]
         ELSE [ok |-> TRUE, err |-> "", ntype |-> 2, nug |-> PyNum(nugget.val)]

\* nugget_type property: the label of the libgpgpu.nugget_type value
nugget_type(ntype) ==
    CASE ntype = 0 -> "adaptive"
      [] ntype = 1 -> "fit"
      [] OTHER     -> "fixed"

\* n_params property
n_params(gpu, ntype) == n_params_of(gpu.D, ntype)

\* the kernel checks of __init__: the kernel kept, or an error
kernel_check(k) ==
    IF k.type = "str"
    THEN IF k.val = "SquaredExponential"
         THEN [ok |-> TRUE, kernel |-> PyObj("SquaredExponential")]
         ELSE [ok |-> FALSE, kernel |-> k]
    ELSE IF Truthy(k) /\ k.type # "SquaredExponential"
         THEN [ok |-> FALSE, kernel |-> k]
         ELSE [ok |-> TRUE, kernel |-> k]

\* the mean check of __init__
mean_check(mean) == ~Truthy(mean)

\* the shape checks of __init__ (a 1-D inputs array becomes a column)
shape_check(inputs, targets) ==
    /\ (IF inputs.ndim = 1 THEN 2 ELSE inputs.ndim) = 2
    /\ targets.ndim = 1
    /\ targets.n = inputs.n

\* number of input dimensions after the reshape
DimOf(inputs) == IF inputs.ndim = 1 THEN 1 ELSE inputs.d

\* theta property (getter): a fresh array filled by get_theta
theta(gpu, refuses) ==
    IF Refused(gpu, refuses) THEN Raise("BackendError", gpu, FALSE)
    ELSE Return(get_theta(gpu), gpu, FALSE)

\* fit(theta)
fit(gpu, ntype, th, chol) ==
    LET u == update_theta(gpu, th, ntype, chol)
    IN  IF u.ok THEN ReturnNone(u.gpu) ELSE Raise("BackendError", u.gpu, TRUE)

\* the refit test shared by logposterior and logpost_deriv:
\* self.theta is None or not np.allclose(theta, self.theta, ...)
needs_fit(th, cur) == cur.kind = "none" \/ ~AllClose(th, cur.val)

\* logposterior(theta)
logposterior(gpu, ntype, th, chol, refuses) ==
    LET cur == theta(gpu, refuses)
    IN  IF cur.kind = "error" THEN cur
        ELSE IF cur.kind # "none" /\ ~Broadcastable(th, cur.val)
        THEN Raise("ValueError", gpu, FALSE)
        ELSE IF needs_fit(th, cur)
        THEN LET f == fit(gpu, ntype, th, chol)
             IN  IF f.kind = "error" THEN f
                 ELSE Return(get_logpost(f.gpu), f.gpu, TRUE)
        ELSE IF Refused(gpu, refuses) THEN Raise("BackendError", gpu, FALSE)
        ELSE Return(get_logpost(gpu), gpu, FALSE)

\* logpost_deriv(theta)
logpost_deriv(gpu, ntype, th, chol, refuses) ==
    IF Len(th) # n_params(gpu, ntype) THEN Raise("AssertionError", gpu, FALSE)
    ELSE LET cur == theta(gpu, refuses)
         IN  IF cur.kind = "error" THEN cur
             ELSE IF needs_fit(th, cur)
             THEN LET f == fit(gpu, ntype, th, chol)
                  IN  IF f.kind = "error" THEN f
                      ELSE Return(dloglik_dtheta(f.gpu), f.gpu, TRUE)
             ELSE IF Refused(gpu, refuses) THEN Raise("BackendError", gpu, FALSE)
             ELSE Return(dloglik_dtheta(gpu), gpu, FALSE)

\* logpost_hessian(theta): the body is "pass"
logpost_hessian(gpu, th) == ReturnNone(gpu)

\* PredictResult(mean, unc, deriv); result[i] is its i-th component, from 0
PredictResult(mean, unc, deriv) == <<mean, unc, deriv>>
Component(result, i) == result[i + 1]

\* np.zeros(m)
zeros(m) == [i \in 1..m |-> Zero]

\* predict(testing, unc, deriv, include_nugget)
predict(gpu, testing, unc, deriv, include_nugget, refuses) ==
    LET ndim == IF testing.ndim = 1 THEN 2 ELSE testing.ndim
        rows == IF testing.ndim = 1 THEN <<testing.data>> ELSE testing.data
    IN  IF ndim # 2 THEN Raise("AssertionError", gpu, FALSE)
        ELSE IF ~DimOk(gpu, rows) \/ Refused(gpu, refuses)
        THEN Raise("BackendError", gpu, FALSE)
        ELSE LET m == Len(rows)
                 means == predict_batch(gpu, rows)
                 variances == IF unc THEN predict_variance_batch(gpu, rows) ELSE zeros(m)
             IN  Return(PredictResult(means, variances, zeros(m)), gpu, FALSE)

\* __call__ taking component 1 of the result instead of component 0
__call__unc(gpu, testing, refuses) ==
    LET r == predict(gpu, testing, FALSE, FALSE, FALSE, refuses)
    IN  IF r.kind = "error" THEN r ELSE Return(Component(r.val, 1), gpu, FALSE)

\* __call__(testing)
__call__(gpu, testing, refuses) ==
    LET r == predict(gpu, testing, FALSE, FALSE, FALSE, refuses)
    IN  IF r.kind = "error" THEN r ELSE Return(Component(r.val, 0), gpu, FALSE)


\* __init__(inputs, targets, mean, kernel, priors, nugget, ...): the checks in
\* the order of the code, then the native object; garbage and nug are what
\* the fresh native object happens to hold
__init__(inputs, targets, mean, k, nugget, garbage, nug) ==
    LET kc == kernel_check(k)
        ns == nugget_setter(nugget)
        fail(e) == [kind |-> "error", err |-> e, kernel |-> None, ntype |-> 0,
                    nug |-> None, gpu |-> NoBackend]
    IN  IF ~shape_check(inputs, targets) THEN fail("AssertionError")
        ELSE IF ~mean_check(mean) THEN fail("ValueError")
        ELSE IF ~kc.ok THEN fail("ValueError")
        ELSE IF ~ns.ok THEN fail(ns.err)
        ELSE [kind |-> "value", err |-> "", kernel |-> kc.kernel, ntype |-> ns.ntype,
              nug |-> ns.nug,
              gpu |-> DenseGP_GPU(DimOf(inputs), garbage, nug)]

---------------------------------------------------------------------------
(* The state machine *)

Result(op, arg, o) ==
    [op |-> op, arg |-> arg, kind |-> o.kind, err |-> o.err, val |-> o.val,
     refit |-> o.refit]

Init ==
    /\ exists = FALSE
    /\ kernel = None
    /\ _nugget = None
    /\ _nugget_type = 0
    /\ _densegp_gpu = NoBackend
    /\ ret = [op |-> "none", arg |-> <<>>, kind |-> "none", err |-> "", val |-> <<>>,
              refit |-> FALSE]

\* construction happens once: a failed __init__ leaves no object to call
Construct(inputs, targets, mean, k, nugget, garbage, nug) ==
    /\ ~exists /\ ret.op = "none"
    /\ LET o == __init__(inputs, targets, mean, k, nugget, garbage, nug)
       IN  /\ exists' = (o.kind = "value")
           /\ kernel' = o.kernel
           /\ _nugget' = o.nug
           /\ _nugget_type' = o.ntype
           /\ _densegp_gpu' = o.gpu
           /\ ret' = [op |-> "__init__",
                      arg |-> [inputs |-> inputs, targets |-> targets, mean |-> mean,
                               kernel |-> k, nugget |-> nugget],
                      kind |-> o.kind, err |-> o.err, val |-> <<>>, refit |-> FALSE]

\* a method call on the emulator: the backend state and ret change
Call(op, arg, o) ==
    /\ exists
    /\ _densegp_gpu' = o.gpu
    /\ ret' = Result(op, arg, o)
    /\ UNCHANGED <<exists, kernel, _nugget, _nugget_type>>

Fit(th, chol) ==
    Call("fit", th, fit(_densegp_gpu, _nugget_type, th, chol))

SetTheta(th, chol) ==
    Call("theta.setter", th, fit(_densegp_gpu, _nugget_type, th, chol))

GetTheta(refuses) ==
    Call("theta", <<>>, theta(_densegp_gpu, refuses))

LogPosterior(th, chol, refuses) ==
    Call("logposterior", th, logposterior(_densegp_gpu, _nugget_type, th, chol, refuses))

LogPostDeriv(th, chol, refuses) ==
    Call("logpost_deriv", th, logpost_deriv(_densegp_gpu, _nugget_type, th, chol, refuses))

LogPostHessian(th) ==
    Call("logpost_hessian", th, logpost_hessian(_densegp_gpu, th))

Predict(testing, unc, deriv, include_nugget, refuses) ==
    Call("predict", [testing |-> testing, unc |-> unc],
         predict(_densegp_gpu, testing, unc, deriv, include_nugget, refuses))

CallEmulator(testing, refuses) ==
    Call("__call__", [testing |-> testing, unc |-> FALSE],
         __call__(_densegp_gpu, testing, refuses))

\* arguments of the constructions whose emulator the method calls work on
ValidInputs == {sh \in InputShapes : sh.ndim = 2 /\ sh.n = 1}
ValidTargets == {[ndim |-> 1, n |-> 1]}
RunNuggets == {PyStr("adaptive"), PyStr("fit"), PyNum(1), PyNum(-1)}
\* the native object's own nugget only matters under the fixed policy
RunBackendNuggets(nugget) == IF nugget.type = "float" THEN BackendNuggets ELSE {0}

NP == n_params(_densegp_gpu, _nugget_type)

ConstructAny ==
    /\ ~exists /\ ret.op = "none"
    /\ \E inputs \in InputShapes, targets \in TargetShapes, mean \in MeanArgs,
          k \in KernelArgs, nugget \in NuggetArgs, nug \in BackendNuggets :
          \E garbage \in GarbageTheta(n_params_of(DimOf(inputs), nugget_setter(nugget).ntype)) :
             Construct(inputs, targets, mean, k, nugget, garbage, nug)

ConstructValid ==
    /\ ~exists /\ ret.op = "none"
    /\ \E inputs \in ValidInputs, targets \in ValidTargets, nugget \in RunNuggets :
          \E garbage \in GarbageTheta(n_params_of(DimOf(inputs), nugget_setter(nugget).ntype)),
             nug \in RunBackendNuggets(nugget) :
             Construct(inputs, targets, None, PyObj("SquaredExponential"), nugget, garbage, nug)

Next ==
    \/ ConstructValid
    \/ \E th \in ThetaArgs(NP), chol \in CholOutcomes(_nugget_type) : Fit(th, chol)
    \/ \E th \in ThetaArgs(NP), chol \in CholOutcomes(_nugget_type) : SetTheta(th, chol)
    \/ \E refuses \in RefuseChoices(_densegp_gpu) : GetTheta(refuses)
    \/ \E th \in ThetaArgs(NP), chol \in CholOutcomes(_nugget_type),
          refuses \in RefuseChoices(_densegp_gpu) : LogPosterior(th, chol, refuses)
    \/ \E th \in ThetaArgs(NP), chol \in CholOutcomes(_nugget_type),
          refuses \in RefuseChoices(_densegp_gpu) : LogPostDeriv(th, chol, refuses)
    \/ \E th \in ThetaArgs(NP) : LogPostHessian(th)
    \/ \E testing \in TestArgs, unc \in BOOLEAN, deriv \in BOOLEAN,
          include_nugget \in BOOLEAN, refuses \in RefuseChoices(_densegp_gpu) :
          Predict(testing, unc, deriv, include_nugget, refuses)
    \/ \E testing \in TestArgs, refuses \in RefuseChoices(_densegp_gpu) :
          CallEmulator(testing, refuses)

\* the emulator's life: one construction, then any sequence of method calls
Spec == Init /\ [][Next]_vars

\* construction alone, over every combination of arguments
NextInit == ConstructAny
SpecInit == Init /\ [][NextInit]_vars

---------------------------------------------------------------------------
(* Properties *)

\* no fit has succeeded yet on the emulator
Unfit == _densegp_gpu.fact.src = "uninit"

ThetaOps == {"fit", "theta.setter", "logposterior", "logpost_deriv"}
PosteriorOps == {"logposterior", "logpost_deriv"}
QueryOps == {"predict", "logposterior", "logpost_deriv"}

\* C1: while no fit has succeeded, predict is rejected with an error; it
\* returns a PredictResult only after a successful fit.
C1_PredictRejectedWhenUnfit ==
    (ret.op = "predict" /\ Unfit) => ret.kind = "error"

\* C2: a value returned by logposterior or logpost_deriv for a theta of
\* length n_params comes from a factorization computed for that theta: the
\* call refits exactly when no fit has succeeded or theta is not within
\* tolerance of the cached theta, and otherwise answers from the cache.
C2_PosteriorFromSuppliedTheta ==
    [][(ret'.op \in PosteriorOps /\ ret'.kind = "value" /\ Len(ret'.arg) = NP) =>
         LET mustfit == Unfit \/ ~AllClose(ret'.arg, _densegp_gpu.theta_d)
         IN  /\ ret'.refit = mustfit
             /\ ret'.val.fact.src = "fit"
             /\ ret'.refit => ret'.val.fact.theta = ret'.arg
             /\ ~ret'.refit => ret'.val.fact = _densegp_gpu.fact]_vars

\* C3: logpost_hessian never returns normally; every call ends in an error.
C3_HessianNotImplemented ==
    ret.op = "logpost_hessian" => ret.kind = "error"

\* C4: a fit that fails leaves the cached theta and factorization as they
\* were, and while the last fit has failed every predict, logposterior and
\* logpost_deriv call is rejected unless it completes a successful fit.
C4_FailedFitNotServed ==
    [][/\ (ret'.op \in {"fit", "theta.setter"} /\ ret'.kind = "error") =>
            /\ _densegp_gpu'.theta_d = _densegp_gpu.theta_d
            /\ _densegp_gpu'.fact = _densegp_gpu.fact
       /\ (_densegp_gpu.status = "failed" /\ ret'.op \in QueryOps) =>
            (ret'.kind = "error" \/ _densegp_gpu'.status = "fit")]_vars

\* C5: fit, the theta mutator, logposterior and logpost_deriv reject a theta
\* whose length is not n_params with an error, and the rejected call leaves
\* the cached theta and factorization unchanged.
C5_WrongLengthRejected ==
    [][(ret'.op \in ThetaOps /\ Len(ret'.arg) # NP) =>
         (ret'.kind = "error" /\ _densegp_gpu' = _densegp_gpu)]_vars

\* the kernel arguments the design allows
ConformingKernel(k) ==
    \/ k.type = "NoneType"
    \/ k.type = "str" /\ k.val = "SquaredExponential"
    \/ k.type = "SquaredExponential"

\* the nugget arguments the design rejects
BadNugget(a) ==
    \/ a.type \in {"float", "int"} /\ a.val < 0
    \/ a.type = "str" /\ a.val \notin {"adaptive", "fit"}

\* the nugget_type label the design gives a good nugget argument
LabelOf(a) == IF a.type = "str" THEN a.val ELSE "fixed"

\* C6: construction fails, and creates neither emulator nor native object,
\* whenever mean is not None or the kernel is not None, the string
\* "SquaredExponential" or a SquaredExponential instance; with mean None and
\* such a kernel it is not rejected on these grounds.
C6_MeanKernelRejected ==
    ret.op = "__init__" =>
       LET a == ret.arg
       IN  /\ (a.mean.type # "NoneType" \/ ~ConformingKernel(a.kernel)) =>
                (ret.kind = "error" /\ ~exists /\ ~_densegp_gpu.created)
           /\ (a.mean.type = "NoneType" /\ ConformingKernel(a.kernel)
                 /\ shape_check(a.inputs, a.targets) /\ nugget_setter(a.nugget).ok)
                => exists

\* C7: construction with a negative numeric nugget, or a nugget string other
\* than "adaptive" or "fit", fails (with ValueError when no earlier check
\* fails) and creates no native object; construction with "adaptive", "fit"
\* or a non-negative number yields nugget_type "adaptive", "fit" or "fixed".
C7_NuggetValidated ==
    ret.op = "__init__" =>
       LET a == ret.arg
           others == /\ shape_check(a.inputs, a.targets) /\ mean_check(a.mean)
                     /\ kernel_check(a.kernel).ok
       IN  /\ BadNugget(a.nugget) =>
                /\ ret.kind = "error" /\ ~exists /\ ~_densegp_gpu.created
                /\ others => ret.err = "ValueError"
           /\ (~BadNugget(a.nugget) /\ a.nugget.type # "NoneType" /\ others) =>
                /\ exists /\ _densegp_gpu.created
                /\ nugget_type(_nugget_type) = LabelOf(a.nugget)
           /\ exists => nugget_type(_nugget_type) = LabelOf(a.nugget)

\* a negative nugget was turned down by the setter, after every other check
\* of __init__ passed
C7_Witness ==
    /\ ret.op = "__init__" /\ ret.arg.nugget.type = "float" /\ ret.arg.nugget.val = -1
    /\ shape_check(ret.arg.inputs, ret.arg.targets) /\ mean_check(ret.arg.mean)
    /\ kernel_check(ret.arg.kernel).ok
    /\ ret.kind = "error" /\ ~exists

\* C8: under the fixed nugget policy every factorization is regularized with
\* exactly the constant the emulator stores.
C8_FixedNuggetUsed ==
    (exists /\ _nugget_type = 2 /\ ~Unfit) =>
        _densegp_gpu.fact.delta = Const(_nugget.val)

\* C9: the theta accessor returns none while no fit has succeeded, and
\* afterwards the theta of the most recent successful fit.
C9_ThetaReportsFitState ==
    (ret.op = "theta" /\ ret.kind # "error") =>
        IF Unfit THEN ret.kind = "none"
        ELSE ret.kind = "value" /\ ret.val = _densegp_gpu.fact.theta

\* C10: calling the emulator has the outcome of predict(testing, unc=false,
\* deriv=false): it fails exactly when that call fails, otherwise returns
\* exactly the mean component of its result, and changes no emulator state.
C10_CallIsPredictMean ==
    [][ret'.op = "__call__" =>
         /\ \E refuses \in RefuseChoices(_densegp_gpu) :
               LET p == predict(_densegp_gpu, ret'.arg.testing, FALSE, FALSE, FALSE, refuses)
               IN  /\ (ret'.kind = "error") = (p.kind = "error")
                   /\ p.kind = "error" => ret'.err = p.err
                   /\ p.kind = "value" => (ret'.kind = "value" /\ ret'.val = p.val[1])
         /\ UNCHANGED <<exists, kernel, _nugget, _nugget_type, _densegp_gpu>>]_vars

\* a fitted emulator was called and returned the means
C10_Witness ==
    /\ ret.op = "__call__" /\ ret.kind = "value" /\ ~Unfit
    /\ Len(ret.val) = MaxM

====
